---- MODULE Spec2Model ----
(***************************************************************************)
(* A model of substack_reader.py: the Trade Companion reader.              *)
(*                                                                         *)
(* Text is a sequence of tokens.  A token is one character ("a", " ",      *)
(* "<", ...), one complete markup tag ("<p>", "</div>", ...), one entity   *)
(* ("&nbsp;") or one fixed literal that the code only ever treats as a     *)
(* whole (the post-URL prefix, the excluded slug, a sentinel message).     *)
(* Each regular expression of the source is an operator over such          *)
(* sequences that matches as Python's re does on the text the tokens stand *)
(* for: leftmost, non-overlapping, lazy or greedy as written.              *)
(***************************************************************************)
EXTENDS Integers, Sequences, FiniteSets, TLC

VARIABLES
    cookieFile,     \* state of COOKIES_FILE on disk
    pc,             \* control point of the operation under way
    indexText,      \* response.text of the index fetch
    articles,       \* list returned by fetch_trade_companion_articles
    requests,       \* the requests.get calls issued so far, in order
    pageText,       \* response.text of the article fetch
    html_content,   \* html_content after lines 104-110, or NoMatch
    text_blocks,    \* text_blocks of fetch_substack_article_text
    article_data,   \* value returned by fetch_substack_article_text
    result,         \* value returned by the tool, or Raised
    calls           \* locals of each concurrent extraction

vars == <<cookieFile, pc, indexText, articles, requests, pageText,
          html_content, text_blocks, article_data, result, calls>>

----------------------------------------------------------------------------
(* Tokens *)

TRADE_COMPANION_URL == "https://tradecompanion.substack.com"

\* The literal head of url_pattern, "https://tradecompanion\.substack\.com/p/".
PostPrefix == "https://tradecompanion.substack.com/p/"

excluded_slug == "my-trade-methodology-fundamentals"

\* Characters matched by \s in the source's patterns and removed by strip().
Whitespace == {" ", "\n", "\t"}

\* Characters matched by ["\'].
Quotes == {"\"", "'"}

\* Complete tags, each one token.
HOpen == <<"<h1>", "<h2>", "<h3>", "<h4>", "<h5>", "<h6>">>
HClose == <<"</h1>", "</h2>", "</h3>", "</h4>", "</h5>", "</h6>">>
TimeTags == {"<time datetime=\"2025-01-01\">", "<time datetime=\"2025-02-02\">"}
DivBody == "<div class=\"body markup\">"
DivComments == "<div class=\"comments\">"
DivClose == "</div>"
Footer == "<footer>"
ArticleOpen == "<article>"
ArticleClose == "</article>"

TagTokens ==
    {HOpen[i] : i \in 1..6} \cup {HClose[i] : i \in 1..6} \cup TimeTags
    \cup {DivBody, DivComments, DivClose, Footer, ArticleOpen, ArticleClose,
          "<time>", "<p>", "</p>", "<li>", "</li>", "<b>", "</b>",
          "<script>", "</script>", "<style>", "</style>",
          "<svg>", "</svg>", "<figure>", "</figure>"}

\* Python's None, as the value of a dict-valued variable.
None == [none |-> TRUE]

\* A text variable that holds nothing yet; a search that found nothing.
NoText == <<"(no text)">>
NoMatch == <<"(no match)">>

\* An exception that leaves the function.
Raised == [raised |-> TRUE]

\* A message string returned by the tool.
Message(m) == [message |-> m]

----------------------------------------------------------------------------
(* Sequences *)

\* Least index j >= i with s[j] \in S, or 0.
RECURSIVE FindFrom(_, _, _)
FindFrom(s, i, S) ==
    IF i > Len(s) THEN 0
    ELSE IF s[i] \in S THEN i
    ELSE FindFrom(s, i + 1, S)

RECURSIVE Flatten(_)
Flatten(ss) == IF ss = <<>> THEN <<>> ELSE Head(ss) \o Flatten(Tail(ss))

\* All sequences over S of length at most n.
SeqsUpTo(S, n) == UNION {[1..k -> S] : k \in 0..n}

Contains(s, t) == \E i \in 1..Len(s) : s[i] = t

----------------------------------------------------------------------------
(* clean_html_text *)

\* re.sub(r'<[^>]+>', ' ', html_text): a "<" (a character, or the one that
\* begins a tag token) up to the first ">" after it (a character, or the one
\* that ends a tag token), with at least one character between the two.
RECURSIVE RemoveTags(_)
RemoveTags(s) ==
    IF s = <<>> THEN <<>>
    ELSE IF Head(s) \in TagTokens THEN <<" ">> \o RemoveTags(Tail(s))
    ELSE IF Head(s) = "<"
         THEN LET j == FindFrom(s, 2, TagTokens \cup {">"})
              IN  IF j = 0 \/ (j = 2 /\ s[2] = ">")
                  THEN <<"<">> \o RemoveTags(Tail(s))
                  ELSE <<" ">> \o RemoveTags(SubSeq(s, j + 1, Len(s)))
    ELSE <<Head(s)>> \o RemoveTags(Tail(s))

\* The six entity substitutions, each entity one token.
DecodeEntity(t) ==
    CASE t = "&nbsp;" -> " "
      [] t = "&amp;" -> "&"
      [] t = "&lt;" -> "<"
      [] t = "&gt;" -> ">"
      [] t = "&quot;" -> "\""
      [] t = "&#39;" -> "'"
      [] OTHER -> t

DecodeEntities(s) == [i \in 1..Len(s) |-> DecodeEntity(s[i])]

\* re.sub(run of characters of S, to): every maximal run becomes one `to`.
RECURSIVE CollapseRuns(_, _, _)
CollapseRuns(s, S, to) ==
    IF s = <<>> THEN <<>>
    ELSE IF Head(s) \in S
         THEN IF Len(s) > 1 /\ s[2] \in S
              THEN CollapseRuns(Tail(s), S, to)
              ELSE <<to>> \o CollapseRuns(Tail(s), S, to)
    ELSE <<Head(s)>> \o CollapseRuns(Tail(s), S, to)

\* str.strip()
RECURSIVE Strip(_)
Strip(s) ==
    IF s = <<>> THEN <<>>
    ELSE IF Head(s) \in Whitespace THEN Strip(Tail(s))
    ELSE IF s[Len(s)] \in Whitespace THEN Strip(SubSeq(s, 1, Len(s) - 1))
    ELSE s

CollapseSpaces(s) == CollapseRuns(s, Whitespace, " ")

\* clean_html_text that decodes the entities after collapsing the whitespace.
clean_html_text_DecodeLast(s) ==
    Strip(CollapseRuns(DecodeEntities(CollapseSpaces(RemoveTags(s))),
                       {"\n"}, "\n"))

clean_html_text(s) ==
    Strip(CollapseRuns(CollapseSpaces(DecodeEntities(RemoveTags(s))),
                       {"\n"}, "\n"))

----------------------------------------------------------------------------
(* fetch_trade_companion_articles: the scan of the index page *)

\* Characters of the class [^/\s"\'] that index pages of the model hold; the
\* excluded slug is a run of such characters.  Every other token of an index
\* page ("/", the URL prefix, which holds "/") ends a run without being
\* whitespace or a quote.
SlugChars == {"a", "b", excluded_slug}

SlugChar(t) == t \in SlugChars

\* Length of the maximal run of slug characters of s that starts at i.
RECURSIVE RunLen(_, _)
RunLen(s, i) ==
    IF i > Len(s) \/ ~SlugChar(s[i]) THEN 0 ELSE 1 + RunLen(s, i + 1)

\* FindUrls without the lookahead: the run may end the page or meet a "/".
RECURSIVE FindUrls_NoLookahead(_, _)
FindUrls_NoLookahead(s, i) ==
    LET p == FindFrom(s, i, {PostPrefix})
    IN  IF p = 0 THEN <<>>
        ELSE LET n == RunLen(s, p + 1)
             IN  IF n > 0
                 THEN <<SubSeq(s, p, p + n)>> \o FindUrls_NoLookahead(s, p + n + 1)
                 ELSE FindUrls_NoLookahead(s, p + 1)

\* re.findall(url_pattern, response.text): the prefix, a non-empty greedy
\* run of [^/\s"\'], and the lookahead (?=[\s"\']).  When the character
\* after the maximal run is not in the lookahead's class no shorter run
\* helps: the character after a shorter run is a character of the run.
RECURSIVE FindUrls(_, _)
FindUrls(s, i) ==
    LET p == FindFrom(s, i, {PostPrefix})
    IN  IF p = 0 THEN <<>>
        ELSE LET n == RunLen(s, p + 1)
                 e == p + n
             IN  IF n > 0 /\ e < Len(s) /\ s[e + 1] \in Whitespace \cup Quotes
                 THEN <<SubSeq(s, p, e)>> \o FindUrls(s, e + 1)
                 ELSE FindUrls(s, p + 1)

url_matches(text) == FindUrls(text, 1)

\* Lines 177-181: keep the URLs of the publication that lack the excluded slug.
KeepUrl(url) ==
    /\ url # <<>> /\ Head(url) = PostPrefix
    /\ ~Contains(url, excluded_slug)

RECURSIVE FilterUrls(_)
FilterUrls(us) ==
    IF us = <<>> THEN <<>>
    ELSE IF KeepUrl(Head(us)) THEN <<Head(us)>> \o FilterUrls(Tail(us))
    ELSE FilterUrls(Tail(us))

\* AddUnique without the membership test of line 189.
AddUnique_NoTest(unique_urls, url) == Append(unique_urls, url)

\* AddUnique that moves a URL seen again to the end of the list.
AddUnique_KeepLast(unique_urls, url) ==
    LET kept == {k \in 1..Len(unique_urls) : unique_urls[k] # url}
        Pick(n) == CHOOSE k \in kept : Cardinality({j \in kept : j <= k}) = n
    IN  [n \in 1..Cardinality(kept) |-> unique_urls[Pick(n)]] \o <<url>>

\* Lines 186-190: appends url to unique_urls unless it is there already.
AddUnique(unique_urls, url) ==
    IF \E k \in 1..Len(unique_urls) : unique_urls[k] = url
    THEN unique_urls ELSE Append(unique_urls, url)

RECURSIVE Dedupe(_, _)
Dedupe(us, unique_urls) ==
    IF us = <<>> THEN unique_urls
    ELSE Dedupe(Tail(us), AddUnique(unique_urls, Head(us)))

\* Line 196: slug.replace('-', ' ').title(), token by token.
TitleCase(t) ==
    CASE t = "a" -> "A"
      [] t = "b" -> "B"
      [] t = excluded_slug -> "My Trade Methodology Fundamentals"
      [] OTHER -> t

\* Lines 193-203: one entry per URL; the title is made from the slug,
\* url.split('/')[-1], which is what follows the prefix.
ArticleEntry(url) ==
    [title |-> [k \in 1..(Len(url) - 1) |-> TitleCase(url[k + 1])],
     url |-> url, date |-> <<>>, preview |-> <<>>]

ScanIndex(text) ==
    LET unique_urls == Dedupe(FilterUrls(url_matches(text)), <<>>)
    IN  [k \in 1..Len(unique_urls) |-> ArticleEntry(unique_urls[k])]

----------------------------------------------------------------------------
(* fetch_substack_article_text: the extraction from the fetched page *)

UnknownTitle == <<"Unknown Title">>
Author == <<"Adam Mancini">>
CouldNotExtract == <<"Could not extract article content.">>

\* The bullet character that line 133 puts before a list item.
Bullet == "(bullet)"

\* re.search of '<tag[^>]*?>(.*?)</tag>' from position i: the bounds <<o, c>>
\* of the leftmost match (o the opening tag, c the first closing tag after
\* it), or <<0, 0>>.  An opening tag with no closing tag after it matches
\* nothing, and then no later one does.
SearchElement(s, i, Opens, close) ==
    LET o == FindFrom(s, i, Opens)
        c == IF o = 0 THEN 0 ELSE FindFrom(s, o + 1, {close})
    IN  IF c = 0 THEN <<0, 0>> ELSE <<o, c>>

\* re.findall of '<tag[^>]*?>(.*?)</tag>': the inner texts, in document order.
RECURSIVE FindAllElements(_, _, _, _)
FindAllElements(s, i, Opens, close) ==
    LET m == SearchElement(s, i, Opens, close)
    IN  IF m[1] = 0 THEN <<>>
        ELSE <<SubSeq(s, m[1] + 1, m[2] - 1)>>
             \o FindAllElements(s, m[2] + 1, Opens, close)

\* re.sub of '<tag[^>]*?>.*?</tag>' by '': every match is deleted.
RECURSIVE RemoveElements(_, _, _)
RemoveElements(s, open, close) ==
    LET m == SearchElement(s, 1, {open}, close)
    IN  IF m[1] = 0 THEN s
        ELSE SubSeq(s, 1, m[1] - 1)
             \o RemoveElements(SubSeq(s, m[2] + 1, Len(s)), open, close)

\* Lines 81-83.
TitleOf(text) ==
    LET m == SearchElement(text, 1, {HOpen[1]}, HClose[1])
    IN  IF m[1] = 0 THEN UnknownTitle
        ELSE clean_html_text(SubSeq(text, m[1] + 1, m[2] - 1))

\* Lines 88-91: the datetime attribute of the first <time> tag that has one.
DateOf(text) ==
    LET t == FindFrom(text, 1, TimeTags)
    IN  IF t = 0 THEN <<>>
        ELSE IF text[t] = "<time datetime=\"2025-01-01\">" THEN <<"2025-01-01">>
        ELSE <<"2025-02-02">>

\* The tail of the first content_pattern, '</div>\s*<(footer|div\s+class=
\* "[^"]*?comments)', matched at position c.
RECURSIVE SkipSpace(_, _)
SkipSpace(s, i) ==
    IF i <= Len(s) /\ s[i] \in Whitespace THEN SkipSpace(s, i + 1) ELSE i

EndsBody(s, c) ==
    /\ s[c] = DivClose
    /\ LET n == SkipSpace(s, c + 1)
       IN  n <= Len(s) /\ s[n] \in {Footer, DivComments}

\* Lines 95-96: the leftmost body div and, lazily, the first '</div>' after
\* it that the footer or the comments div follows.  A '</div>' that ends the
\* body of a later body div ends the body of the first one too.
BodyDivMatch(text) ==
    LET o == FindFrom(text, 1, {DivBody})
        ends == IF o = 0 THEN {}
                ELSE {c \in (o + 1)..Len(text) : EndsBody(text, c)}
    IN  IF ends = {} THEN NoMatch
        ELSE LET c == CHOOSE x \in ends : \A y \in ends : x <= y
             IN  SubSeq(text, o + 1, c - 1)

\* Lines 100-101.
ArticleMatch(text) ==
    LET m == SearchElement(text, 1, {ArticleOpen}, ArticleClose)
    IN  IF m[1] = 0 THEN NoMatch ELSE SubSeq(text, m[1] + 1, m[2] - 1)

\* ContentMatch with the two strategies in the other order.
ContentMatch_ArticleFirst(text) ==
    LET article == ArticleMatch(text)
    IN  IF article # NoMatch THEN article ELSE BodyDivMatch(text)

\* Lines 93-104: content_match.group(1), or NoMatch.
ContentMatch(text) ==
    LET body == BodyDivMatch(text)
    IN  IF body # NoMatch THEN body ELSE ArticleMatch(text)

\* Lines 106-110.
StripNonContent(html) ==
    RemoveElements(
        RemoveElements(
            RemoveElements(
                RemoveElements(html, "<script>", "</script>"),
                "<style>", "</style>"),
            "<svg>", "</svg>"),
        "<figure>", "</figure>")

RECURSIVE Hashes(_)
Hashes(n) == IF n = 0 THEN <<>> ELSE <<"#">> \o Hashes(n - 1)

\* Lines 117-119: the blocks of the headings of level i, none dropped.
HeadingBlocks(html, i) ==
    LET headings == FindAllElements(html, 1, {HOpen[i]}, HClose[i])
    IN  [k \in 1..Len(headings) |->
            Hashes(i - 1) \o <<" ">> \o clean_html_text(headings[k])]

\* Lines 116-119: levels 2 to 6, one level after the other.
RECURSIVE HeadingsFrom(_, _)
HeadingsFrom(html, i) ==
    IF i > 6 THEN <<>> ELSE HeadingBlocks(html, i) \o HeadingsFrom(html, i + 1)

RECURSIVE NonEmpty(_)
NonEmpty(ss) ==
    IF ss = <<>> THEN <<>>
    ELSE IF Head(ss) # <<>> THEN <<Head(ss)>> \o NonEmpty(Tail(ss))
    ELSE NonEmpty(Tail(ss))

CleanAll(ss) == [k \in 1..Len(ss) |-> clean_html_text(ss[k])]

\* Lines 121-126.
ParagraphBlocks(html) ==
    NonEmpty(CleanAll(FindAllElements(html, 1, {"<p>"}, "</p>")))

\* Lines 128-133.
ListItemBlocks(html) ==
    LET items == NonEmpty(CleanAll(FindAllElements(html, 1, {"<li>"}, "</li>")))
    IN  [k \in 1..Len(items) |-> <<Bullet, " ">> \o items[k]]

\* ExtractBlocks that emits the paragraphs before the headings.
ExtractBlocks_ParagraphsFirst(html) ==
    ParagraphBlocks(html) \o HeadingsFrom(html, 2) \o ListItemBlocks(html)

\* Lines 112-133: text_blocks, from the stripped html_content.
ExtractBlocks(html) ==
    HeadingsFrom(html, 2) \o ParagraphBlocks(html) \o ListItemBlocks(html)

\* Line 136: "\n\n".join(text_blocks)
RECURSIVE Join(_)
Join(blocks) ==
    IF blocks = <<>> THEN <<>>
    ELSE IF Len(blocks) = 1 THEN Head(blocks)
    ELSE Head(blocks) \o <<"\n", "\n">> \o Join(Tail(blocks))

\* Line 139: re.sub(r'\n{3,}', '\n\n', text_content)
RECURSIVE SqueezeNewlines(_)
SqueezeNewlines(s) ==
    IF s = <<>> THEN <<>>
    ELSE IF Len(s) >= 3 /\ s[1] = "\n" /\ s[2] = "\n" /\ s[3] = "\n"
         THEN SqueezeNewlines(Tail(s))
    ELSE <<Head(s)>> \o SqueezeNewlines(Tail(s))

\* Lines 135-139.
RenderBody(blocks) == SqueezeNewlines(Join(blocks))

\* Lines 103-110: html_content once stripped, or NoMatch.
HtmlContent(text) ==
    LET match == ContentMatch(text)
    IN  IF match = NoMatch THEN NoMatch ELSE StripNonContent(match)

\* Lines 112-133.
TextBlocks(html) == IF html = NoMatch THEN <<>> ELSE ExtractBlocks(html)

\* Lines 135-141: text_content.
ContentOf(html, blocks) ==
    IF html = NoMatch THEN CouldNotExtract ELSE RenderBody(blocks)

\* Lines 143-148.
ArticleRecord(text, html, blocks) ==
    [title |-> TitleOf(text), author |-> Author, date |-> DateOf(text),
     content |-> ContentOf(html, blocks)]

\* Lines 81-148: the record made from a fetched page.
ExtractArticle(text) ==
    LET html == HtmlContent(text)
    IN  ArticleRecord(text, html, TextBlocks(html))

----------------------------------------------------------------------------
(* The credential store and the HTTP fetch *)

\* COOKIES_FILE: absent, a JSON array of {name, value} objects, text that is
\* not JSON, or JSON that is not such an array.
CookieStates == {"absent", "cookie_array", "not_json", "not_name_value"}

\* Lines 17-26: the cookie dict, or "raised" (json.loads at line 23, the
\* subscripts of line 26).
get_cookies_dict(file) ==
    CASE file = "absent" -> "{}"
      [] file = "cookie_array" -> "cookies"
      [] OTHER -> "raised"

\* requests.get followed by raise_for_status: the body arrives, or the
\* connection fails, or the status is not 2xx.
FetchOutcomes == {"ok", "network_error", "http_error"}

Request(url, cookies, outcome) ==
    [url |-> url, cookies |-> cookies, outcome |-> outcome]

----------------------------------------------------------------------------
(* get_latest_trade_companion_adam_mancini_article *)

\* Line 219.
UnavailableMessage ==
    "Failed to fetch articles from Trade Companion. The service might be temporarily unavailable."

\* Line 227.
FailedMessage ==
    "Failed to fetch the latest article. The article might not be accessible."

\* An index step that answers a failed fetch with a remembered entry.
ArticlesOnFailure_Stale ==
    << [title |-> <<"A">>, url |-> <<PostPrefix, "a">>, date |-> <<>>,
        preview |-> <<>>] >>

\* Lines 207-208: what the index step returns when the fetch fails.
ArticlesOnFailure == <<>>

\* An article step that answers a failed fetch with a placeholder record.
ArticleOnFailure_Placeholder ==
    [title |-> UnknownTitle, author |-> Author, date |-> <<>>,
     content |-> CouldNotExtract]

\* Lines 150-151: what the article step returns when the fetch fails.
ArticleOnFailure == None

\* Line 222.
LatestUrl(as) == as[1].url

\* Lines 230-239.
Formatted(data, url) ==
    [title |-> data.title, author |-> data.author, published |-> data.date,
     url |-> url, content |-> data.content]

Init ==
    /\ cookieFile \in CookieStates
    /\ pc = "start"
    /\ indexText = NoText
    /\ articles = <<>>
    /\ requests = <<>>
    /\ pageText = NoText
    /\ html_content = NoText
    /\ text_blocks = <<>>
    /\ article_data = None
    /\ result = None
    /\ calls = <<>>

\* Line 216 and fetch_trade_companion_articles (153-208) on an index page
\* drawn from Pages.  get_cookies_dict runs before the try block: what it
\* raises leaves the tool.
FetchIndex(Pages) ==
    /\ pc = "start"
    /\ LET cookies == get_cookies_dict(cookieFile)
       IN  IF cookies = "raised"
           THEN /\ pc' = "raised"
                /\ result' = Raised
                /\ UNCHANGED <<indexText, articles, requests>>
           ELSE \E outcome \in FetchOutcomes :
                /\ requests' = Append(requests,
                                 Request(<<TRADE_COMPANION_URL>>, cookies, outcome))
                /\ IF outcome = "ok"
                   THEN \E text \in Pages :
                        /\ indexText' = text
                        /\ articles' = ScanIndex(text)
                   ELSE /\ indexText' = NoText
                        /\ articles' = ArticlesOnFailure
                /\ pc' = "scanned"
                /\ UNCHANGED result
    /\ UNCHANGED <<cookieFile, pageText, html_content, text_blocks,
                   article_data, calls>>

\* Lines 218-219.
ReturnUnavailable ==
    /\ pc = "scanned"
    /\ articles = <<>>
    /\ result' = Message(UnavailableMessage)
    /\ pc' = "done"
    /\ UNCHANGED <<cookieFile, indexText, articles, requests, pageText,
                   html_content, text_blocks, article_data, calls>>

\* Lines 222-224 and fetch_substack_article_text (68-151) on a page drawn
\* from Pages.
FetchArticle(Pages) ==
    /\ pc = "scanned"
    /\ articles # <<>>
    /\ LET cookies == get_cookies_dict(cookieFile)
       IN  IF cookies = "raised"
           THEN /\ pc' = "raised"
                /\ result' = Raised
                /\ UNCHANGED <<requests, pageText, html_content, text_blocks,
                               article_data>>
           ELSE \E outcome \in FetchOutcomes :
                /\ requests' = Append(requests,
                                 Request(LatestUrl(articles), cookies, outcome))
                /\ IF outcome = "ok"
                   THEN \E text \in Pages :
                        LET html == HtmlContent(text)
                            blocks == TextBlocks(html)
                        IN  /\ pageText' = text
                            /\ html_content' = html
                            /\ text_blocks' = blocks
                            /\ article_data' = ArticleRecord(text, html, blocks)
                   ELSE /\ pageText' = NoText
                        /\ html_content' = NoText
                        /\ text_blocks' = <<>>
                        /\ article_data' = ArticleOnFailure
                /\ pc' = "fetched"
                /\ UNCHANGED result
    /\ UNCHANGED <<cookieFile, indexText, articles, calls>>

\* Lines 226-227.
ReturnFailed ==
    /\ pc = "fetched"
    /\ article_data = None
    /\ result' = Message(FailedMessage)
    /\ pc' = "done"
    /\ UNCHANGED <<cookieFile, indexText, articles, requests, pageText,
                   html_content, text_blocks, article_data, calls>>

\* Lines 229-239.
ReturnFormatted ==
    /\ pc = "fetched"
    /\ article_data # None
    /\ result' = Formatted(article_data, LatestUrl(articles))
    /\ pc' = "done"
    /\ UNCHANGED <<cookieFile, indexText, articles, requests, pageText,
                   html_content, text_blocks, article_data, calls>>

\* The credential store is refreshed from outside between the two reads of
\* the file (each fetch function reads it anew).
CookiesRefreshed ==
    /\ pc = "scanned"
    /\ cookieFile' \in CookieStates \ {cookieFile}
    /\ UNCHANGED <<pc, indexText, articles, requests, pageText, html_content,
                   text_blocks, article_data, result, calls>>

\* Index pages and article pages of the tool's runs.
Url(slug) == <<PostPrefix>> \o slug

IndexPages ==
    { <<>>,
      <<"a", " ">>,
      Url(<<excluded_slug>>) \o <<"\"">>,
      Url(<<"a">>) \o <<"\"">>,
      Url(<<excluded_slug>>) \o <<"\"">> \o Url(<<"b">>) \o <<"'">>
          \o Url(<<"a">>) \o <<" ">> \o Url(<<"b">>) \o <<"\"">> }

ArticlePages ==
    { <<>>,
      <<"<h1>", "a", "</h1>", "<p>", "b", "</p>">>,
      <<"<h1>", "a", "</h1>", "<time datetime=\"2025-01-01\">", DivBody,
        "<h2>", "a", "</h2>", "<p>", "b", "</p>", DivClose, Footer>>,
      <<ArticleOpen, "<p>", "a", "</p>", "<li>", "b", "</li>", ArticleClose>> }

FetchIndexPage == FetchIndex(IndexPages)
FetchArticlePage == FetchArticle(ArticlePages)

Next ==
    \/ FetchIndexPage
    \/ ReturnUnavailable
    \/ FetchArticlePage
    \/ ReturnFailed
    \/ ReturnFormatted
    \/ CookiesRefreshed

Spec == Init /\ [][Next]_vars

----------------------------------------------------------------------------
(* The index scan on every small index page *)

\* An index page is a run of at most MaxIndexParts parts: a quoted post URL,
\* the bare prefix, a slug character, the excluded slug, a slash, a quote
\* (the pattern treats whitespace and quotes alike, in one character class).
MaxIndexParts == 5

IndexParts ==
    { Url(<<"a">>) \o <<"\"">>, Url(<<"b">>) \o <<"\"">>, <<PostPrefix>>,
      <<"a">>, <<excluded_slug>>, <<"/">>, <<"\"">> }

ScannedPages == {Flatten(ps) : ps \in SeqsUpTo(IndexParts, MaxIndexParts)}

InitIndex == Init /\ cookieFile = "absent"

ScanIndexPage == FetchIndex(ScannedPages)

SpecIndex == InitIndex /\ [][ScanIndexPage]_vars

----------------------------------------------------------------------------
(* Claims about the tool's runs (Spec) *)

\* C1: no error escapes the tool: whatever the credential store holds and
\* however the two fetches end, the tool returns a string.
C1_NoErrorEscapes == result # Raised

\* C2: when the index step yields an empty list the tool returns the
\* unavailability message and issues no article fetch; an article fetch is
\* issued only after an index scan that returned at least one URL.
C2_EmptyIndexUnavailable ==
    /\ (pc \in {"scanned", "done"} /\ articles = <<>>) => Len(requests) = 1
    /\ (pc = "done" /\ articles = <<>>) =>
           result = Message(UnavailableMessage)
    /\ \A k \in 1..Len(requests) :
           requests[k].url # <<TRADE_COMPANION_URL>> =>
               /\ k > 1
               /\ requests[1].outcome = "ok"
               /\ articles # <<>>

\* The index page held only the excluded post, and the tool has returned.
C2_Witness ==
    /\ pc = "done"
    /\ articles = <<>>
    /\ indexText # NoText
    /\ Contains(indexText, excluded_slug)

\* C3: when the index scan returned a URL and the fetch of the first one
\* fails, the article step yields None and the tool returns the "failed to
\* fetch the latest article" message; the fetch is issued once, for the
\* first URL only.
C3_FailedFetchNoRecord ==
    /\ Len(requests) <= 2
    /\ Len(requests) = 2 => requests[2].url = articles[1].url
    /\ (Len(requests) = 2 /\ requests[2].outcome # "ok") =>
           /\ article_data = None
           /\ pageText = NoText
           /\ pc = "done" => result = Message(FailedMessage)

\* The scan returned two URLs, the fetch of the first got a non-2xx status,
\* and the tool has returned.
C3_Witness ==
    /\ pc = "done"
    /\ Len(articles) = 2
    /\ Len(requests) = 2
    /\ requests[2].outcome = "http_error"

----------------------------------------------------------------------------
(* Claims about the index scan (SpecIndex) *)

Scanned == pc = "scanned" /\ indexText # NoText

ReturnedUrls == [k \in 1..Len(articles) |-> articles[k].url]

Terminators == Whitespace \cup Quotes

\* C4: the returned URLs are pairwise distinct, each is the prefix followed
\* by a non-empty slug, and none contains the excluded slug.
C4_UrlInvariant ==
    Scanned =>
        /\ \A j, k \in 1..Len(articles) :
               articles[j].url = articles[k].url => j = k
        /\ \A k \in 1..Len(articles) :
               LET u == articles[k].url
               IN  /\ Len(u) >= 2
                   /\ u[1] = PostPrefix
                   /\ \A n \in 2..Len(u) :
                          u[n] \notin Terminators \cup {"/", PostPrefix}
                   /\ ~Contains(u, excluded_slug)

\* The page matched the excluded post and one other post twice.
C4_Witness ==
    /\ Scanned
    /\ Len(articles) = 1
    /\ Len(url_matches(indexText)) = 3
    /\ \E k \in 1..3 : Contains(url_matches(indexText)[k], excluded_slug)

\* Position of the first occurrence of u in the sequence of matches.
FirstOccurrence(ms, u) ==
    CHOOSE i \in 1..Len(ms) : ms[i] = u /\ \A j \in 1..(i - 1) : ms[j] # u

\* C5: the returned list holds each matched URL without the excluded slug
\* exactly once, in the order of the first occurrences.
C5_FirstSeenOrder ==
    Scanned =>
        LET ms == url_matches(indexText)
            us == ReturnedUrls
        IN  /\ {us[k] : k \in 1..Len(us)} =
                   {ms[i] : i \in {x \in 1..Len(ms) :
                                       ~Contains(ms[x], excluded_slug)}}
            /\ \A j, k \in 1..Len(us) : us[j] = us[k] => j = k
            /\ \A j, k \in 1..Len(us) :
                   j < k <=> FirstOccurrence(ms, us[j]) < FirstOccurrence(ms, us[k])

\* The page matched a, then b, then a again.
C5_Witness ==
    /\ Scanned
    /\ LET ms == url_matches(indexText)
       IN  /\ Len(ms) = 3
           /\ ms[1] = ms[3]
           /\ ms[1] # ms[2]
    /\ Len(articles) = 2

\* The URL literals of the page as the claim reads them: the prefix and the
\* maximal run of characters after it that are neither whitespace nor quotes.
RECURSIVE LiteralEnd(_, _)
LiteralEnd(s, i) ==
    IF i < Len(s) /\ s[i + 1] \notin Terminators THEN LiteralEnd(s, i + 1) ELSE i

UrlLiterals(s) ==
    {SubSeq(s, p, LiteralEnd(s, p)) :
        p \in {x \in 1..Len(s) : s[x] = PostPrefix /\ LiteralEnd(s, x) > x}}

\* C6 as stated: every URL literal of the page without the excluded slug is
\* returned, whatever follows its run, also at the end of the page.
C6_EveryLiteralFound ==
    Scanned =>
        \A u \in UrlLiterals(indexText) :
            ~Contains(u, excluded_slug) =>
                \E k \in 1..Len(articles) : articles[k].url = u

\* The occurrences the pattern matches: the prefix, a maximal non-empty run
\* of characters that are neither "/" nor whitespace nor quotes, and right
\* after it a whitespace or quote character.
RECURSIVE SlugEnd(_, _)
SlugEnd(s, i) ==
    IF i < Len(s) /\ s[i + 1] \notin Terminators \cup {"/", PostPrefix}
    THEN SlugEnd(s, i + 1) ELSE i

TerminatedUrls(s) ==
    {SubSeq(s, p, SlugEnd(s, p)) :
        p \in {x \in 1..Len(s) :
                  /\ s[x] = PostPrefix
                  /\ SlugEnd(s, x) > x
                  /\ SlugEnd(s, x) < Len(s)
                  /\ s[SlugEnd(s, x) + 1] \in Terminators}}

\* C6 amended: the returned URLs are exactly the occurrences of the prefix
\* with a non-empty slash-free run that a whitespace or quote character
\* follows, less those that contain the excluded slug.
C6_TerminatedLiteralsFound ==
    Scanned =>
        {articles[k].url : k \in 1..Len(articles)} =
            {u \in TerminatedUrls(indexText) : ~Contains(u, excluded_slug)}

\* One URL is followed by a quote and returned; another ends the page and is
\* not returned.
C6_Witness ==
    /\ Scanned
    /\ Len(articles) = 1
    /\ Len(indexText) > 2
    /\ indexText[Len(indexText)] = "a"
    /\ indexText[Len(indexText) - 1] = PostPrefix
    /\ articles[1].url = Url(<<"b">>)

----------------------------------------------------------------------------
(* The article step on every small page *)

\* The tool after a successful index fetch of the given page.
AfterIndex(page) ==
    /\ cookieFile = "absent"
    /\ pc = "scanned"
    /\ indexText = page
    /\ articles = ScanIndex(page)
    /\ requests = <<Request(<<TRADE_COMPANION_URL>>, "{}", "ok")>>
    /\ pageText = NoText
    /\ html_content = NoText
    /\ text_blocks = <<>>
    /\ article_data = None
    /\ result = None
    /\ calls = <<>>

InitArticle == AfterIndex(Url(<<"a">>) \o <<"\"">>)

PagesOf(Parts, n) == {Flatten(ps) : ps \in SeqsUpTo(Parts, n)}

\* Pages for the choice of the body fragment: at most MaxLocateParts parts,
\* each a body div's opening tag, a '</div>', a '</div>' that the footer or
\* (after a line break) the comments div follows, an article element, a
\* paragraph, a title, a date.
MaxLocateParts == 4

LocateParts ==
    { <<DivBody>>, <<DivClose>>, <<DivClose, Footer>>,
      <<DivClose, "\n", DivComments>>,
      <<ArticleOpen, "<p>", "c", "</p>", ArticleClose>>,
      <<"<p>", "b", "</p>">>, <<"<h1>", "a", "</h1>">>,
      <<"<time datetime=\"2025-01-01\">">> }

LocatePages == PagesOf(LocateParts, MaxLocateParts)

LocatePage == FetchArticle(LocatePages)

SpecLocate == InitArticle /\ [][LocatePage]_vars

\* Pages for the block extraction: an article element that holds at most
\* MaxBlockParts elements, each a heading of level 2 or 3, an empty heading,
\* a paragraph, a blank paragraph, a list item, an empty list item, a figure.
MaxBlockParts == 4

BlockParts ==
    { <<"<h2>", "x", "</h2>">>, <<"<h3>", "y", "</h3>">>, <<"<h2>", "</h2>">>,
      <<"<p>", "x", "</p>">>, <<"<p>", " ", "</p>">>,
      <<"<li>", "x", "</li>">>, <<"<li>", "</li>">>,
      <<"<figure>", "<p>", "z", "</p>", "</figure>">> }

BlockPages ==
    {<<ArticleOpen>> \o f \o <<ArticleClose>> :
        f \in PagesOf(BlockParts, MaxBlockParts)}

ExtractPage == FetchArticle(BlockPages)

SpecBlocks == InitArticle /\ [][ExtractPage]_vars

\* Pages for the text cleaner: a title and a run of paragraphs that hold the
\* same text of at most MaxCleanParts parts, each a letter, a blank, a line
\* break, "<", ">", a non-breaking-space entity or a paragraph boundary.
MaxCleanParts == 4

CleanParts ==
    { <<"a">>, <<" ">>, <<"\n">>, <<"<">>, <<">">>, <<"&nbsp;">>,
      <<"</p>", "<p>">> }

CleanPage(t) ==
    <<"<h1>">> \o t \o <<"</h1>", ArticleOpen, "<p>">> \o t
        \o <<"</p>", ArticleClose>>

CleanPages == {CleanPage(t) : t \in PagesOf(CleanParts, MaxCleanParts)}

CleanAndAssemblePage == FetchArticle(CleanPages)

SpecClean == InitArticle /\ [][CleanAndAssemblePage]_vars

----------------------------------------------------------------------------
(* Several invocations of fetch_substack_article_text under way at once *)

\* Number of invocations.
MaxCalls == 2

CallIds == 1..MaxCalls

\* The locals of an invocation that has not fetched yet.
StartCall ==
    [pc |-> "start", text |-> NoText, title |-> <<>>, date |-> <<>>,
     html_content |-> NoText, text_blocks |-> <<>>, text_content |-> <<>>,
     record |-> None]

CallPages ==
    { <<"<h1>", "a", "</h1>", "<time datetime=\"2025-01-01\">", DivBody,
        "<h2>", "a", "</h2>", "<p>", "b", "</p>", "<li>", "c", "</li>",
        DivClose, Footer>>,
      <<ArticleOpen, "<p>", "a", "</p>", "<figure>", "<p>", "z", "</p>",
        "</figure>", "<p>", "b", "</p>", ArticleClose>>,
      <<"<p>", "b", "</p>">> }

InitCalls ==
    /\ cookieFile = "absent"
    /\ pc = "calls"
    /\ indexText = NoText
    /\ articles = <<>>
    /\ requests = <<>>
    /\ pageText = NoText
    /\ html_content = NoText
    /\ text_blocks = <<>>
    /\ article_data = None
    /\ result = None
    /\ calls = [i \in CallIds |-> StartCall]

\* A step of invocation i sets its own locals and nothing else.
SetCall(i, locals) ==
    /\ calls' = [calls EXCEPT ![i] = locals]
    /\ UNCHANGED <<cookieFile, pc, indexText, articles, requests, pageText,
                   html_content, text_blocks, article_data, result>>

\* A text_blocks that starts from the blocks another invocation has left.
FreshBlocks_Shared(i) ==
    LET others == {j \in CallIds \ {i} : calls[j].text_blocks # <<>>}
    IN  IF others = {} THEN <<>>
        ELSE calls[CHOOSE j \in others : TRUE].text_blocks

\* Line 113: text_blocks = [], a list of the invocation's own.
FreshBlocks(i) == <<>>

\* Lines 73-79 and 150-151.
CallFetch(i) ==
    /\ pc = "calls"
    /\ calls[i].pc = "start"
    /\ get_cookies_dict(cookieFile) # "raised"
    /\ \E outcome \in FetchOutcomes :
           IF outcome = "ok"
           THEN \E text \in CallPages :
                    SetCall(i, [calls[i] EXCEPT !.pc = "got", !.text = text])
           ELSE SetCall(i, [calls[i] EXCEPT !.pc = "done",
                                            !.record = ArticleOnFailure])

\* Lines 81-104 and 140-141.
CallLocate(i) ==
    /\ pc = "calls"
    /\ calls[i].pc = "got"
    /\ LET text == calls[i].text
           match == ContentMatch(text)
       IN  IF match = NoMatch
           THEN SetCall(i, [calls[i] EXCEPT !.pc = "assembled",
                                !.title = TitleOf(text), !.date = DateOf(text),
                                !.html_content = NoMatch,
                                !.text_content = CouldNotExtract])
           ELSE SetCall(i, [calls[i] EXCEPT !.pc = "located",
                                !.title = TitleOf(text), !.date = DateOf(text),
                                !.html_content = match])

\* Lines 106-113.
CallStrip(i) ==
    /\ pc = "calls"
    /\ calls[i].pc = "located"
    /\ SetCall(i, [calls[i] EXCEPT !.pc = "stripped",
                       !.html_content = StripNonContent(@),
                       !.text_blocks = FreshBlocks(i)])

\* Lines 116-119.
CallHeadings(i) ==
    /\ pc = "calls"
    /\ calls[i].pc = "stripped"
    /\ SetCall(i, [calls[i] EXCEPT !.pc = "headings",
                       !.text_blocks = @ \o HeadingsFrom(calls[i].html_content, 2)])

\* Lines 121-126.
CallParagraphs(i) ==
    /\ pc = "calls"
    /\ calls[i].pc = "headings"
    /\ SetCall(i, [calls[i] EXCEPT !.pc = "paragraphs",
                       !.text_blocks = @ \o ParagraphBlocks(calls[i].html_content)])

\* Lines 128-133.
CallListItems(i) ==
    /\ pc = "calls"
    /\ calls[i].pc = "paragraphs"
    /\ SetCall(i, [calls[i] EXCEPT !.pc = "items",
                       !.text_blocks = @ \o ListItemBlocks(calls[i].html_content)])

\* Lines 135-139.
CallJoin(i) ==
    /\ pc = "calls"
    /\ calls[i].pc = "items"
    /\ SetCall(i, [calls[i] EXCEPT !.pc = "assembled",
                       !.text_content = RenderBody(calls[i].text_blocks)])

\* Lines 143-148.
CallReturn(i) ==
    /\ pc = "calls"
    /\ calls[i].pc = "assembled"
    /\ SetCall(i, [calls[i] EXCEPT !.pc = "done",
                       !.record = [title |-> calls[i].title, author |-> Author,
                                   date |-> calls[i].date,
                                   content |-> calls[i].text_content]])

FetchStep == \E i \in CallIds : CallFetch(i)
LocateStep == \E i \in CallIds : CallLocate(i)
StripStep == \E i \in CallIds : CallStrip(i)
HeadingsStep == \E i \in CallIds : CallHeadings(i)
ParagraphsStep == \E i \in CallIds : CallParagraphs(i)
ListItemsStep == \E i \in CallIds : CallListItems(i)
JoinStep == \E i \in CallIds : CallJoin(i)
ReturnStep == \E i \in CallIds : CallReturn(i)

\* The invocations advance in any interleaving, one statement group at a time.
NextCalls ==
    \/ FetchStep
    \/ LocateStep
    \/ StripStep
    \/ HeadingsStep
    \/ ParagraphsStep
    \/ ListItemsStep
    \/ JoinStep
    \/ ReturnStep

SpecCalls == InitCalls /\ [][NextCalls]_vars

----------------------------------------------------------------------------
(* Claims about the choice of the body fragment (SpecLocate) *)

\* The article step has returned the record of a fetched page.
Extracted == pc = "fetched" /\ pageText # NoText

\* The positions of the '</div>' tokens after position o that the footer or
\* the comments div follows, whitespace apart.
BodyEnds(s, o) ==
    {c \in (o + 1)..Len(s) :
        /\ s[c] = DivClose
        /\ \E n \in (c + 1)..Len(s) :
               /\ s[n] \in {Footer, DivComments}
               /\ \A k \in (c + 1)..(n - 1) : s[k] \in Whitespace}

Least(S) == CHOOSE x \in S : \A y \in S : x <= y

Positions(s, t) == {k \in 1..Len(s) : s[k] = t}

\* The positions of the opening tags `open` of s that a `close` follows.
Closed(s, open, close) ==
    {o \in Positions(s, open) : \E c \in Positions(s, close) : c > o}

\* The text between position o and the first `close` after it.
Inner(s, o, close) ==
    SubSeq(s, o + 1, Least({c \in Positions(s, close) : c > o}) - 1)

\* C8: the body fragment is chosen by two ordered strategies.  When a body
\* div is followed by a '</div>' before the footer or the comments div, the
\* body is what that div holds up to the first such '</div>', whether or not
\* the page has an article element; otherwise it is what the first article
\* element holds; otherwise the record's body is the placeholder.  The title
\* and the date are those of the page in each case, or "Unknown Title" and
\* the empty string.
C8_OrderedStrategies ==
    Extracted =>
        LET bodies == {o \in Positions(pageText, DivBody) :
                          BodyEnds(pageText, o) # {}}
            elems == Closed(pageText, ArticleOpen, ArticleClose)
            titles == Closed(pageText, "<h1>", "</h1>")
            dates == {k \in 1..Len(pageText) : pageText[k] \in TimeTags}
        IN  /\ article_data # None
            /\ bodies # {} =>
                   LET o == Least(Positions(pageText, DivBody))
                       c == Least(BodyEnds(pageText, o))
                   IN  html_content =
                           StripNonContent(SubSeq(pageText, o + 1, c - 1))
            /\ (bodies = {} /\ elems # {}) =>
                   html_content =
                       StripNonContent(Inner(pageText, Least(elems), ArticleClose))
            /\ (bodies = {} /\ elems = {}) =>
                   /\ html_content = NoMatch
                   /\ article_data.content = CouldNotExtract
            /\ html_content # NoMatch =>
                   article_data.content = RenderBody(ExtractBlocks(html_content))
            /\ article_data.title =
                   IF titles = {} THEN UnknownTitle
                   ELSE clean_html_text(Inner(pageText, Least(titles), "</h1>"))
            /\ article_data.date =
                   IF dates = {} THEN <<>> ELSE <<"2025-01-01">>
            /\ article_data.author = Author

\* The page holds a body div with the paragraph b, closed before the footer,
\* and an article element with the paragraph c: the body is b alone.
C8_Witness ==
    /\ Extracted
    /\ \E o \in Positions(pageText, DivBody) : BodyEnds(pageText, o) # {}
    /\ ArticleMatch(pageText) = <<"<p>", "c", "</p>">>
    /\ article_data.content = <<"b">>

----------------------------------------------------------------------------
(* Claims about the block extraction (SpecBlocks) *)

\* The group of a block: 1 to 5 for a heading of level 2 to 6 (as many "#"
\* as the level less one), 6 for a paragraph, 7 for a list item.
RECURSIVE LeadingHashes(_)
LeadingHashes(b) ==
    IF b # <<>> /\ Head(b) = "#" THEN 1 + LeadingHashes(Tail(b)) ELSE 0

Group(b) ==
    IF b # <<>> /\ Head(b) = "#" THEN LeadingHashes(b)
    ELSE IF b # <<>> /\ Head(b) = Bullet THEN 7
    ELSE 6

\* The n-th least element of a set of positions.
Nth(S, n) == CHOOSE k \in S : Cardinality({j \in S : j <= k}) = n

\* The cleaned texts of the elements `open` ... `close` of s, in document
\* order, with `mark` in front; the empty ones left out unless keepEmpty.
GroupBlocks(s, open, close, mark, keepEmpty) ==
    LET all == Closed(s, open, close)
        kept == {o \in all :
                    keepEmpty \/ clean_html_text(Inner(s, o, close)) # <<>>}
    IN  [n \in 1..Cardinality(kept) |->
            mark \o clean_html_text(Inner(s, Nth(kept, n), close))]

\* The blocks of text_blocks that belong to group g, in their order.
BlocksOf(g) ==
    LET at == {k \in 1..Len(text_blocks) : Group(text_blocks[k]) = g}
    IN  [n \in 1..Cardinality(at) |-> text_blocks[Nth(at, n)]]

\* C9: the blocks are ordered by group: headings of level 2, ..., headings
\* of level 6, paragraphs, list items; inside a group they keep the order of
\* the document; every heading gives a block, a paragraph or a list item
\* gives one unless its cleaned text is empty, so that the number of blocks
\* is the number of headings plus the non-empty paragraphs and list items.
C9_GroupedBlocks ==
    Extracted =>
        LET html == html_content
            nonEmpty(open, close) ==
                {o \in Closed(html, open, close) :
                    clean_html_text(Inner(html, o, close)) # <<>>}
        IN  /\ html # NoMatch
            /\ \A j, k \in 1..Len(text_blocks) :
                   j < k => Group(text_blocks[j]) <= Group(text_blocks[k])
            /\ \A i \in 2..6 :
                   BlocksOf(i - 1) =
                       GroupBlocks(html, HOpen[i], HClose[i],
                                   Hashes(i - 1) \o <<" ">>, TRUE)
            /\ BlocksOf(6) = GroupBlocks(html, "<p>", "</p>", <<>>, FALSE)
            /\ BlocksOf(7) =
                   GroupBlocks(html, "<li>", "</li>", <<Bullet, " ">>, FALSE)
            /\ Len(text_blocks) =
                   Cardinality(UNION {Closed(html, HOpen[i], HClose[i]) :
                                         i \in 2..6})
                   + Cardinality(nonEmpty("<p>", "</p>"))
                   + Cardinality(nonEmpty("<li>", "</li>"))

\* The fragment holds, in this order, a list item, a level-3 heading, a blank
\* paragraph and a level-2 heading: three blocks, the level-2 heading first
\* and the list item last.
C9_Witness ==
    /\ Extracted
    /\ pageText = <<ArticleOpen, "<li>", "x", "</li>", "<h3>", "y", "</h3>",
                    "<p>", " ", "</p>", "<h2>", "x", "</h2>", ArticleClose>>
    /\ text_blocks = << <<"#", " ", "x">>, <<"#", "#", " ", "y">>,
                        <<Bullet, " ", "x">> >>

----------------------------------------------------------------------------
(* Claims about the text cleaner and the assembled body (SpecClean) *)

\* A single-line trimmed text: no line break, no whitespace at either end,
\* no two whitespace characters in a row.
SingleLineTrimmed(s) ==
    /\ ~Contains(s, "\n")
    /\ s # <<>> => (s[1] \notin Whitespace /\ s[Len(s)] \notin Whitespace)
    /\ \A k \in 1..(Len(s) - 1) :
           ~(s[k] \in Whitespace /\ s[k + 1] \in Whitespace)

\* The text between the title tags of the page, which clean_html_text gets.
TitleInput == Inner(pageText, Least(Positions(pageText, "<h1>")), "</h1>")

\* C10: clean_html_text returns a single-line trimmed text for every input
\* and the empty text for the empty input; the body is the blocks joined by
\* exactly two line breaks, and never holds three line breaks in a row.
C10_SingleLineTrimmed ==
    Extracted =>
        LET body == article_data.content
        IN  /\ article_data.title = clean_html_text(TitleInput)
            /\ SingleLineTrimmed(article_data.title)
            /\ TitleInput = <<>> => article_data.title = <<>>
            /\ \A k \in 1..Len(text_blocks) :
                   /\ text_blocks[k] # <<>>
                   /\ SingleLineTrimmed(text_blocks[k])
            /\ body = Join(text_blocks)
            /\ Cardinality(Positions(body, "\n")) =
                   IF text_blocks = <<>> THEN 0 ELSE 2 * (Len(text_blocks) - 1)
            /\ \A k \in 1..(Len(body) - 2) :
                   ~(body[k] = "\n" /\ body[k + 1] = "\n" /\ body[k + 2] = "\n")

\* The cleaned text held a line break and a paragraph boundary: the title is
\* one line and the body is two blocks with two line breaks between them.
C10_Witness ==
    /\ Extracted
    /\ TitleInput = <<"a", "\n", "</p>", "<p>", "a">>
    /\ article_data.title = <<"a", " ", "a">>
    /\ article_data.content = <<"a", "\n", "\n", "a">>

----------------------------------------------------------------------------
(* Claims about invocations under way at once (SpecCalls) *)

IsPrefix(s, t) == Len(s) <= Len(t) /\ s = SubSeq(t, 1, Len(s))

\* C7: extractions do not interfere.  In every interleaving the record of an
\* invocation is the record that its own page gives when extracted alone
\* (None when its fetch failed), two invocations that fetched the same page
\* return the same record, and the blocks an invocation has gathered so far
\* are blocks of its own page.
C7_NoInterference ==
    \A i \in CallIds :
        LET c == calls[i]
        IN  /\ c.pc = "done" =>
                   c.record = IF c.text = NoText THEN None
                              ELSE ExtractArticle(c.text)
            /\ c.pc \in {"stripped", "headings", "paragraphs", "items"} =>
                   IsPrefix(c.text_blocks, ExtractBlocks(c.html_content))
            /\ \A j \in CallIds :
                   (c.pc = "done" /\ calls[j].pc = "done"
                        /\ c.text = calls[j].text) =>
                       c.record = calls[j].record

\* The first invocation has returned a record of three blocks while the
\* second, which fetched the same page, has gathered its headings.
C7_Witness ==
    /\ calls[1].pc = "done"
    /\ calls[1].record # None
    /\ Len(calls[1].text_blocks) = 3
    /\ calls[2].text = calls[1].text
    /\ calls[2].pc = "headings"
    /\ calls[2].text_blocks # <<>>

====
